---- MODULE Spec2Model ----
(***************************************************************************)
(* OwnedKdTree<A, T, D> (src/src/owned_kdtree.rs): a bucketed k-d tree     *)
(* with insertion, exact-match removal, k-nearest and radius queries and   *)
(* a lazy best-first iterator.                                             *)
(*                                                                         *)
(* Numbers.  A (a float type) is modelled by the integers.  The finite     *)
(* coordinates a caller may pass are the even numbers 0, 2, .., 2*MaxCoord,*)
(* so that the midpoint min + (max - min) / 2 of two of them is computed   *)
(* exactly; Infinity, -Infinity and NaN are three values outside that      *)
(* range.  Option<X> is a sequence of length 0 (None) or 1 (Some(x)).      *)
(* Indices of dimensions are 0-based as in the code; tuples are 1-based.   *)
(***************************************************************************)
EXTENDS Integers, Sequences, FiniteSets, TLC

VARIABLES tree, pc, adds, removedSum, last, iter, yielded

vars == <<tree, pc, adds, removedSum, last, iter, yielded>>

(***************************************************************************)
(* Bounds of the model.                                                    *)
(***************************************************************************)
MaxCoord == 1
MaxCap == 2
MaxAdds == 3
NumValues == 2
MaxRadius == 5

(***************************************************************************)
(* The number type A and the type parameters.                              *)
(***************************************************************************)
D == 2

Infinity == 1000000

NaN == Infinity + 1

is_nan(x) == x = NaN

is_finite(x) == x \notin {Infinity, -Infinity, NaN}

\* -x; the negation of NaN is NaN
neg(x) == IF is_nan(x) THEN NaN ELSE -x

\* a.min(b) of two non-NaN numbers
fmin(a, b) == IF b < a THEN b ELSE a

Coords == {2 * i : i \in 0 .. MaxCoord}

NonFinite == {Infinity, -Infinity, NaN}

\* the points stored: add and remove are called with these
FinitePoints == [1 .. D -> Coords]

\* the points searched from: these and the points between them
QueryPoints == [1 .. D -> 0 .. (2 * MaxCoord)]

\* the points with one coordinate that is not finite
BadPoints == {[i \in 1 .. D |-> IF i = j THEN x ELSE 0] : j \in 1 .. D, x \in NonFinite}

Values == 1 .. NumValues

None == <<>>

Some(x) == <<x>>

is_some(o) == o # <<>>

is_none(o) == o = <<>>

unwrap(o) == o[1]

(***************************************************************************)
(* The caller-supplied metric: the squared Euclidean distance.  A          *)
(* coordinate at infinity puts the point at distance Infinity.             *)
(***************************************************************************)
RECURSIVE sum_squares(_, _, _)
sum_squares(a, b, i) ==
    IF i > D THEN 0
    ELSE (a[i] - b[i]) * (a[i] - b[i]) + sum_squares(a, b, i + 1)

distance(a, b) ==
    IF \E i \in 1 .. D : ~is_finite(a[i]) \/ ~is_finite(b[i])
    THEN IF \E i \in 1 .. D : is_nan(a[i]) \/ is_nan(b[i]) THEN NaN ELSE Infinity
    ELSE sum_squares(a, b, 1)

(***************************************************************************)
(* util::distance_to_space_const: the distance from p1 to the point of the *)
(* box [min_bounds, max_bounds] nearest to it (per-dimension clamp).       *)
(***************************************************************************)
distance_to_space_const(p1, min_bounds, max_bounds) ==
    LET p2 == [i \in 1 .. D |->
                  IF p1[i] > max_bounds[i] THEN max_bounds[i]
                  ELSE IF p1[i] < min_bounds[i] THEN min_bounds[i]
                  ELSE p1[i]]
    IN  distance(p1, p2)

(***************************************************************************)
(* The node.  Next to the fields of the struct a node carries its history:  *)
(* inserted, the set of the points add_unchecked or add_to_bucket was       *)
(* called with on this node since with_capacity made it.  No code reads it. *)
(***************************************************************************)
with_capacity(capacity) ==
    [left |-> None, right |-> None,
     capacity |-> capacity, size |-> 0,
     min_bounds |-> [i \in 1 .. D |-> Infinity],
     max_bounds |-> [i \in 1 .. D |-> -Infinity],
     split_value |-> None, split_dimension |-> None,
     points |-> Some(<<>>), bucket |-> Some(<<>>),
     inserted |-> {}]

\* the history of a node that point is inserted into
record(self, point) == [self EXCEPT !.inserted = @ \cup {point}]

size(self) == self.size

is_leaf(self) ==
    /\ is_some(self.bucket)
    /\ is_some(self.points)
    /\ is_none(self.split_value)
    /\ is_none(self.split_dimension)
    /\ is_none(self.left)
    /\ is_none(self.right)

\* check_point rejecting NaN only
check_point_nan_only(point) ==
    IF \E i \in 1 .. D : is_nan(point[i])
    THEN "NonFiniteCoordinate" ELSE "Ok"

check_point(point) ==
    IF \E i \in 1 .. D : ~is_finite(point[i])
    THEN "NonFiniteCoordinate" ELSE "Ok"

belongs_in_left(self, point) ==
    point[unwrap(self.split_dimension) + 1] < unwrap(self.split_value)

\* extend lowering min_bounds only
extend_min_only(self, point) ==
    [self EXCEPT
        !.min_bounds = [i \in 1 .. D |-> IF point[i] < @[i] THEN point[i] ELSE @[i]]]

extend(self, point) ==
    [self EXCEPT
        !.min_bounds = [i \in 1 .. D |-> IF point[i] < @[i] THEN point[i] ELSE @[i]],
        !.max_bounds = [i \in 1 .. D |-> IF point[i] > @[i] THEN point[i] ELSE @[i]]]

\* Vec::swap_remove(0): the last element takes the place of the first
swap_remove0(v) ==
    IF Len(v) <= 1 THEN <<>>
    ELSE <<v[Len(v)]>> \o SubSeq(v, 2, Len(v) - 1)

\* Vec::remove(i), i 0-based
vec_remove(v, i) == SubSeq(v, 1, i) \o SubSeq(v, i + 2, Len(v))

\* the loop of split over the dimensions: the split dimension chosen
RECURSIVE split_scan(_, _, _, _)
\* the loop of split taking the last of the widest dimensions
split_scan_last(self, dim, max, split_dimension) ==
    IF dim = D THEN split_dimension
    ELSE LET diff == self.max_bounds[dim + 1] - self.min_bounds[dim + 1]
         IN  IF ~is_nan(diff) /\ diff >= max /\ diff > 0
             THEN split_scan(self, dim + 1, diff, Some(dim))
             ELSE split_scan(self, dim + 1, max, split_dimension)

\* the loop of split passing over dimension 0
split_scan_from_one(self, dim, max, split_dimension) ==
    IF dim = D THEN split_dimension
    ELSE LET diff == self.max_bounds[dim + 1] - self.min_bounds[dim + 1]
         IN  IF ~is_nan(diff) /\ diff > max /\ dim > 0
             THEN split_scan(self, dim + 1, diff, Some(dim))
             ELSE split_scan(self, dim + 1, max, split_dimension)

split_scan(self, dim, max, split_dimension) ==
    IF dim = D THEN split_dimension
    ELSE LET diff == self.max_bounds[dim + 1] - self.min_bounds[dim + 1]
         IN  IF ~is_nan(diff) /\ diff > max
             THEN split_scan(self, dim + 1, diff, Some(dim))
             ELSE split_scan(self, dim + 1, max, split_dimension)

split_midpoint(min, max) == min + (max - min) \div 2

RECURSIVE add_to_bucket(_, _, _), split(_, _, _), split_loop(_, _, _, _, _)
\* add_to_bucket splitting as soon as the leaf is full
add_to_bucket_early(self, point, data) ==
    LET s1 == extend(record(self, point), point)
        points == Append(unwrap(s1.points), point)
        bucket == Append(unwrap(s1.bucket), data)
        s2 == [s1 EXCEPT !.points = None, !.bucket = None, !.size = @ + 1]
    IN  IF s2.size >= s2.capacity
        THEN split(s2, points, bucket)
        ELSE [s2 EXCEPT !.points = Some(points), !.bucket = Some(bucket)]

add_to_bucket(self, point, data) ==
    LET s1 == extend(record(self, point), point)
        points == Append(unwrap(s1.points), point)
        bucket == Append(unwrap(s1.bucket), data)
        s2 == [s1 EXCEPT !.points = None, !.bucket = None, !.size = @ + 1]
    IN  IF s2.size > s2.capacity
        THEN split(s2, points, bucket)
        ELSE [s2 EXCEPT !.points = Some(points), !.bucket = Some(bucket)]

split_loop(self, points, bucket, left, right) ==
    IF points = <<>>
    THEN [self EXCEPT !.left = Some(left), !.right = Some(right)]
    ELSE LET point == points[1]
             data == bucket[1]
         IN  IF belongs_in_left(self, point)
             THEN split_loop(self, swap_remove0(points), swap_remove0(bucket),
                             add_to_bucket(left, point, data), right)
             ELSE split_loop(self, swap_remove0(points), swap_remove0(bucket),
                             left, add_to_bucket(right, point, data))

split(self, points, bucket) ==
    LET split_dimension == split_scan(self, 0, 0, self.split_dimension)
    IN  IF is_none(split_dimension)
        THEN [self EXCEPT !.points = Some(points), !.bucket = Some(bucket)]
        ELSE LET dim == unwrap(split_dimension)
                 s1 == [self EXCEPT
                           !.split_dimension = split_dimension,
                           !.split_value =
                               Some(split_midpoint(self.min_bounds[dim + 1],
                                                   self.max_bounds[dim + 1]))]
             IN  split_loop(s1, points, bucket,
                            with_capacity(self.capacity),
                            with_capacity(self.capacity))

RECURSIVE add_unchecked(_, _, _)
\* add_unchecked descending into the child the point does not belong in
add_unchecked_swapped(self, point, data) ==
    IF is_leaf(self) THEN add_to_bucket(self, point, data)
    ELSE LET s1 == [extend(record(self, point), point) EXCEPT !.size = @ + 1]
         IN  IF belongs_in_left(s1, point)
             THEN [s1 EXCEPT !.right = Some(add_unchecked(unwrap(s1.right), point, data))]
             ELSE [s1 EXCEPT !.left = Some(add_unchecked(unwrap(s1.left), point, data))]

add_unchecked(self, point, data) ==
    IF is_leaf(self) THEN add_to_bucket(self, point, data)
    ELSE LET s1 == [extend(record(self, point), point) EXCEPT !.size = @ + 1]
         IN  IF belongs_in_left(s1, point)
             THEN [s1 EXCEPT !.left = Some(add_unchecked(unwrap(s1.left), point, data))]
             ELSE [s1 EXCEPT !.right = Some(add_unchecked(unwrap(s1.right), point, data))]

\* add without the check of the capacity
add_any_capacity(self, point, data) ==
    IF check_point(point) # "Ok"
    THEN [tree |-> self, res |-> check_point(point)]
    ELSE [tree |-> add_unchecked(self, point, data), res |-> "Ok"]

\* add without the check of the point
add_nocheck(self, point, data) ==
    IF self.capacity = 0 THEN [tree |-> self, res |-> "ZeroCapacity"]
    ELSE [tree |-> add_unchecked(self, point, data), res |-> "Ok"]

\* add: the tree afterwards and the Result
add(self, point, data) ==
    IF self.capacity = 0 THEN [tree |-> self, res |-> "ZeroCapacity"]
    ELSE IF check_point(point) # "Ok"
         THEN [tree |-> self, res |-> check_point(point)]
         ELSE [tree |-> add_unchecked(self, point, data), res |-> "Ok"]

(***************************************************************************)
(* remove.  The scan of a leaf is the loop                                 *)
(*   while let Some(p_index) = points.iter().position(|x| x == point)      *)
(* which removes the entry at p_index when its value equals data and       *)
(* otherwise changes nothing, so that the next iteration finds the same    *)
(* p_index again: the loop then never ends (hung).                         *)
(***************************************************************************)
\* Iterator::position, 0-based, None when there is none
position(points, point) ==
    LET hits == {i \in 1 .. Len(points) : points[i] = point}
    IN  IF hits = {} THEN None
        ELSE Some((CHOOSE i \in hits : \A j \in hits : i <= j) - 1)

RECURSIVE remove_scan(_, _, _, _, _)
remove_scan(points, bucket, point, data, removed) ==
    LET p_index == position(points, point)
    IN  IF is_none(p_index)
        THEN [points |-> points, bucket |-> bucket, removed |-> removed, hung |-> FALSE]
        ELSE IF bucket[unwrap(p_index) + 1] = data
             THEN remove_scan(vec_remove(points, unwrap(p_index)),
                              vec_remove(bucket, unwrap(p_index)),
                              point, data, removed + 1)
             ELSE [points |-> points, bucket |-> bucket, removed |-> removed,
                   hung |-> TRUE]

\* a stem not taking the count removed below it off its size
sub_removed_forgotten(self, n) == self

\* a stem emptied by the removal giving up its box
sub_removed_shrinking(self, n) ==
    IF n > 0
    THEN IF self.size = n
         THEN [self EXCEPT !.size = 0,
                           !.min_bounds = [i \in 1 .. D |-> Infinity],
                           !.max_bounds = [i \in 1 .. D |-> -Infinity]]
         ELSE [self EXCEPT !.size = @ - n]
    ELSE self

\* a stem emptied by the removal merging its children into an empty leaf
sub_removed_merging(self, n) ==
    IF n > 0
    THEN IF self.size = n
         THEN [self EXCEPT !.size = 0,
                           !.left = None, !.right = None,
                           !.split_value = None, !.split_dimension = None,
                           !.points = Some(<<>>), !.bucket = Some(<<>>)]
         ELSE [self EXCEPT !.size = @ - n]
    ELSE self

\* self.size -= n when n > 0
sub_removed(self, n) == IF n > 0 THEN [self EXCEPT !.size = @ - n] ELSE self

\* remove: the tree afterwards, the Result, the count, and whether the call
\* never returns (the tree is then the one the call was spinning on)
RECURSIVE remove(_, _, _)
remove(self, point, data) ==
    IF check_point(point) # "Ok"
    THEN [tree |-> self, res |-> check_point(point), removed |-> 0, hung |-> FALSE]
    ELSE IF is_some(self.points) /\ is_some(self.bucket)
    THEN LET r == remove_scan(unwrap(self.points), unwrap(self.bucket), point, data, 0)
         IN  IF r.hung
             THEN [tree |-> [self EXCEPT !.points = None, !.bucket = None,
                                         !.size = @ - r.removed],
                   res |-> "Ok", removed |-> r.removed, hung |-> TRUE]
             ELSE [tree |-> [self EXCEPT !.points = Some(r.points),
                                         !.bucket = Some(r.bucket),
                                         !.size = @ - r.removed],
                   res |-> "Ok", removed |-> r.removed, hung |-> FALSE]
    ELSE LET rr == IF is_some(self.right)
                   THEN remove(unwrap(self.right), point, data)
                   ELSE [tree |-> self, res |-> "Ok", removed |-> 0, hung |-> FALSE]
             s1 == IF is_some(self.right)
                   THEN sub_removed([self EXCEPT !.right = Some(rr.tree)],
                                    IF rr.hung THEN 0 ELSE rr.removed)
                   ELSE self
         IN  IF rr.hung
             THEN [tree |-> s1, res |-> "Ok", removed |-> rr.removed, hung |-> TRUE]
             ELSE LET lr == IF is_some(s1.left)
                            THEN remove(unwrap(s1.left), point, data)
                            ELSE [tree |-> self, res |-> "Ok", removed |-> 0,
                                  hung |-> FALSE]
                      s2 == IF is_some(s1.left)
                            THEN sub_removed([s1 EXCEPT !.left = Some(lr.tree)],
                                             IF lr.hung THEN 0 ELSE lr.removed)
                            ELSE s1
                  IN  [tree |-> s2, res |-> "Ok",
                       removed |-> rr.removed + lr.removed, hung |-> lr.hung]

(***************************************************************************)
(* heap_element::HeapElement: a distance and an element, ordered by the    *)
(* distance alone.  std::collections::BinaryHeap is a max-heap in a Vec;   *)
(* its push, pop, extend and into_sorted_vec are modelled as the standard  *)
(* library computes them, since the order in which entries of equal        *)
(* distance come out depends on them.  Indices are 0-based: at(v, i).      *)
(***************************************************************************)
HeapElement(distance_, element_) == [distance |-> distance_, element |-> element_]

at(v, i) == v[i + 1]

put(v, i, x) == [v EXCEPT ![i + 1] = x]

\* usize::saturating_sub
saturating_sub(a, b) == IF a > b THEN a - b ELSE 0

\* BinaryHeap::sift_up(start, pos): the element at pos moves up; [data, pos]
RECURSIVE sift_up_hole(_, _, _, _)
sift_up_hole(data, start, pos, elt) ==
    IF pos > start
    THEN LET parent == (pos - 1) \div 2
         IN  IF elt.distance <= at(data, parent).distance
             THEN [data |-> put(data, pos, elt), pos |-> pos]
             ELSE sift_up_hole(put(data, pos, at(data, parent)), start, parent, elt)
    ELSE [data |-> put(data, pos, elt), pos |-> pos]

sift_up(data, start, pos) == sift_up_hole(data, start, pos, at(data, pos)).data

\* the child of the hole that is moved up: the right one unless the left is greater
greater_child(data, child) ==
    IF at(data, child).distance <= at(data, child + 1).distance
    THEN child + 1 ELSE child

\* BinaryHeap::sift_down_range(pos, end)
RECURSIVE sift_down_range_hole(_, _, _, _)
sift_down_range_hole(data, pos, end, elt) ==
    LET child == 2 * pos + 1
    IN  IF child <= saturating_sub(end, 2)
        THEN LET c == greater_child(data, child)
             IN  IF elt.distance >= at(data, c).distance
                 THEN put(data, pos, elt)
                 ELSE sift_down_range_hole(put(data, pos, at(data, c)), c, end, elt)
        ELSE IF child = end - 1 /\ elt.distance < at(data, child).distance
             THEN put(put(data, pos, at(data, child)), child, elt)
             ELSE put(data, pos, elt)

sift_down_range(data, pos, end) == sift_down_range_hole(data, pos, end, at(data, pos))

\* BinaryHeap::sift_down_to_bottom(pos): down to a leaf, then sift_up
RECURSIVE sift_down_to_bottom_hole(_, _, _, _)
sift_down_to_bottom_hole(data, start, pos, elt) ==
    LET end == Len(data)
        child == 2 * pos + 1
    IN  IF child <= saturating_sub(end, 2)
        THEN LET c == greater_child(data, child)
             IN  sift_down_to_bottom_hole(put(data, pos, at(data, c)), start, c, elt)
        ELSE IF child = end - 1
             THEN sift_up(put(put(data, pos, at(data, child)), child, elt), start, child)
             ELSE sift_up(put(data, pos, elt), start, pos)

sift_down_to_bottom(data, pos) == sift_down_to_bottom_hole(data, pos, pos, at(data, pos))

heap_push(heap, item) == sift_up(Append(heap, item), 0, Len(heap))

heap_peek(heap) == IF heap = <<>> THEN None ELSE Some(heap[1])

\* BinaryHeap::pop of a heap that is not empty: the item and the heap left
heap_pop(heap) ==
    LET item == heap[Len(heap)]
        data == SubSeq(heap, 1, Len(heap) - 1)
    IN  IF data = <<>> THEN [item |-> item, heap |-> data]
        ELSE [item |-> data[1], heap |-> sift_down_to_bottom(put(data, 0, item), 0)]

\* BinaryHeap::into_sorted_vec: ascending
RECURSIVE sorted_loop(_, _)
sorted_loop(data, end) ==
    IF end > 1
    THEN LET e == end - 1
             swapped == put(put(data, 0, at(data, e)), e, at(data, 0))
         IN  sorted_loop(sift_down_range(swapped, 0, e), e)
    ELSE data

into_sorted_vec(heap) == sorted_loop(heap, Len(heap))

RECURSIVE log2_fast(_)
log2_fast(x) == IF x <= 1 THEN 0 ELSE 1 + log2_fast(x \div 2)

RECURSIVE rebuild_loop(_, _)
rebuild_loop(data, n) ==
    IF n > 0 THEN rebuild_loop(sift_down_range(data, n - 1, Len(data)), n - 1)
    ELSE data

RECURSIVE sift_up_from(_, _)
sift_up_from(data, i) ==
    IF i < Len(data) THEN sift_up_from(sift_up(data, 0, i), i + 1) ELSE data

\* BinaryHeap::extend: the items are appended, then the tail is rebuilt
heap_extend(heap, items) ==
    LET start == Len(heap)
        data == heap \o items
        tail_len == Len(items)
        better_to_rebuild ==
            \/ start < tail_len
            \/ 2 * Len(data) < tail_len * log2_fast(start)
    IN  IF tail_len = 0 THEN heap
        ELSE IF better_to_rebuild THEN rebuild_loop(data, Len(data) \div 2)
        ELSE sift_up_from(data, start)

(***************************************************************************)
(* A subtree of the tree is referred to by its path from the root          *)
(* (0: left, 1: right), a stored value by the path of its leaf and its     *)
(* index in the bucket.                                                    *)
(***************************************************************************)
RECURSIVE node_at(_, _)
node_at(self, path) ==
    IF path = <<>> THEN self
    ELSE IF path[1] = 0 THEN node_at(unwrap(self.left), Tail(path))
    ELSE node_at(unwrap(self.right), Tail(path))

value_ref(path, i, data) == [leaf |-> path, index |-> i, val |-> data]

\* the items of a leaf as the zip of points and bucket yields them
leaf_elements(root, path, point, sign) ==
    LET curr == node_at(root, path)
        points == unwrap(curr.points)
        bucket == unwrap(curr.bucket)
    IN  [i \in 1 .. Len(points) |->
            HeapElement(sign * distance(point, points[i]),
                        value_ref(path, i - 1, bucket[i]))]

(***************************************************************************)
(* nearest_step: one subtree of pending is descended to a leaf             *)
(***************************************************************************)
\* lines 160-181: the descent; [curr, pending]
RECURSIVE step_descend(_, _, _, _, _)
step_descend(root, point, curr, evaluated_dist, pending) ==
    LET node == node_at(root, curr)
    IN  IF is_leaf(node) THEN [curr |-> curr, pending |-> pending]
        ELSE LET left == belongs_in_left(node, point)
                 candidate == Append(curr, IF left THEN 1 ELSE 0)
                 next == Append(curr, IF left THEN 0 ELSE 1)
                 cnode == node_at(root, candidate)
                 candidate_to_space ==
                     distance_to_space_const(point, cnode.min_bounds, cnode.max_bounds)
             IN  step_descend(root, point, next, evaluated_dist,
                     IF candidate_to_space <= evaluated_dist
                     THEN heap_push(pending,
                                    HeapElement(candidate_to_space * (-1), candidate))
                     ELSE pending)

\* lines 189-198: the entries of the leaf are offered to evaluated
RECURSIVE step_collect(_, _, _, _, _)
step_collect(elements, i, num, max_dist, evaluated) ==
    IF i > Len(elements) THEN evaluated
    ELSE LET element == elements[i]
         IN  step_collect(elements, i + 1, num, max_dist,
                 IF element.distance <= max_dist
                 THEN IF Len(evaluated) < num
                      THEN heap_push(evaluated, element)
                      ELSE IF element.distance < unwrap(heap_peek(evaluated)).distance
                           THEN heap_push(heap_pop(evaluated).heap, element)
                           ELSE evaluated
                 ELSE evaluated)

\* nearest_step pruning by the worst candidate found so far although fewer
\* than num have been found
nearest_step_eager(root, point, num, max_dist, pending, evaluated) ==
    LET popped == heap_pop(pending)
        evaluated_dist ==
            IF evaluated # <<>>
            THEN fmin(max_dist, unwrap(heap_peek(evaluated)).distance)
            ELSE max_dist
        d == step_descend(root, point, popped.item.element, evaluated_dist, popped.heap)
    IN  [pending |-> d.pending,
         evaluated |-> step_collect(leaf_elements(root, d.curr, point, 1), 1,
                                    num, max_dist, evaluated)]

nearest_step(root, point, num, max_dist, pending, evaluated) ==
    LET popped == heap_pop(pending)
        evaluated_dist ==
            IF Len(evaluated) = num
            THEN fmin(max_dist, unwrap(heap_peek(evaluated)).distance)
            ELSE max_dist
        d == step_descend(root, point, popped.item.element, evaluated_dist, popped.heap)
    IN  [pending |-> d.pending,
         evaluated |-> step_collect(leaf_elements(root, d.curr, point, 1), 1,
                                    num, max_dist, evaluated)]

\* Into::into of a HeapElement: the pair (distance, element)
into_pair(e) == <<e.distance, e.element>>

take(v, n) == SubSeq(v, 1, IF n < Len(v) THEN n ELSE Len(v))

RECURSIVE nearest_loop(_, _, _, _, _)
nearest_loop(root, point, num, pending, evaluated) ==
    IF /\ pending # <<>>
       /\ \/ Len(evaluated) < num
          \/ neg(unwrap(heap_peek(pending)).distance)
                 <= unwrap(heap_peek(evaluated)).distance
    THEN LET s == nearest_step(root, point, num, Infinity, pending, evaluated)
         IN  nearest_loop(root, point, num, s.pending, s.evaluated)
    ELSE evaluated

nearest(self, point, num_) ==
    IF check_point(point) # "Ok" THEN [res |-> check_point(point), out |-> <<>>]
    ELSE LET num == IF num_ < self.size THEN num_ ELSE self.size
         IN  IF num = 0 THEN [res |-> "Ok", out |-> <<>>]
             ELSE LET evaluated ==
                          nearest_loop(self, point, num,
                                       heap_push(<<>>, HeapElement(0, <<>>)), <<>>)
                      sorted == take(into_sorted_vec(evaluated), num)
                  IN  [res |-> "Ok",
                       out |-> [i \in 1 .. Len(sorted) |-> into_pair(sorted[i])]]

RECURSIVE within_loop(_, _, _, _, _)
within_loop(root, point, radius, pending, evaluated) ==
    IF pending # <<>> /\ neg(unwrap(heap_peek(pending)).distance) <= radius
    THEN LET s == nearest_step(root, point, root.size, radius, pending, evaluated)
         IN  within_loop(root, point, radius, s.pending, s.evaluated)
    ELSE evaluated

\* within returning the heap as it lies (into_vec) instead of sorted
within_unsorted(self, point, radius) ==
    IF check_point(point) # "Ok" THEN [res |-> check_point(point), out |-> <<>>]
    ELSE IF self.size = 0 THEN [res |-> "Ok", out |-> <<>>]
    ELSE LET evaluated ==
                 within_loop(self, point, radius,
                             heap_push(<<>>, HeapElement(0, <<>>)), <<>>)
         IN  [res |-> "Ok",
              out |-> [i \in 1 .. Len(evaluated) |-> into_pair(evaluated[i])]]

within(self, point, radius) ==
    IF check_point(point) # "Ok" THEN [res |-> check_point(point), out |-> <<>>]
    ELSE IF self.size = 0 THEN [res |-> "Ok", out |-> <<>>]
    ELSE LET evaluated ==
                 within_loop(self, point, radius,
                             heap_push(<<>>, HeapElement(0, <<>>)), <<>>)
             sorted == into_sorted_vec(evaluated)
         IN  [res |-> "Ok",
              out |-> [i \in 1 .. Len(sorted) |-> into_pair(sorted[i])]]

(***************************************************************************)
(* NearestIter and NearestIterMut: point, pending and evaluated; the       *)
(* subtrees and values they refer to are those of the tree they borrow.    *)
(* evaluated holds the negated distances, so that its greatest element is  *)
(* the nearest.                                                            *)
(***************************************************************************)
iter_nearest(self, point) ==
    IF check_point(point) # "Ok" THEN [res |-> check_point(point), it |-> <<>>]
    ELSE [res |-> "Ok",
          it |-> Some([point |-> point,
                       pending |-> heap_push(<<>>, HeapElement(0, <<>>)),
                       evaluated |-> <<>>,
                       mutable |-> FALSE])]

iter_nearest_mut(self, point) ==
    IF check_point(point) # "Ok" THEN [res |-> check_point(point), it |-> <<>>]
    ELSE [res |-> "Ok",
          it |-> Some([point |-> point,
                       pending |-> heap_push(<<>>, HeapElement(0, <<>>)),
                       evaluated |-> <<>>,
                       mutable |-> TRUE])]

\* lines 419-437: the descent of NearestIter::next; [curr, pending]
RECURSIVE iter_descend(_, _, _, _)
\* the descent not recording the child it does not enter
iter_descend_forgetful(root, point, curr, pending) ==
    LET node == node_at(root, curr)
    IN  IF is_leaf(node) THEN [curr |-> curr, pending |-> pending]
        ELSE iter_descend(root, point,
                          Append(curr, IF belongs_in_left(node, point) THEN 0 ELSE 1),
                          pending)

iter_descend(root, point, curr, pending) ==
    LET node == node_at(root, curr)
    IN  IF is_leaf(node) THEN [curr |-> curr, pending |-> pending]
        ELSE LET left == belongs_in_left(node, point)
                 candidate == Append(curr, IF left THEN 1 ELSE 0)
                 next == Append(curr, IF left THEN 0 ELSE 1)
                 cnode == node_at(root, candidate)
             IN  iter_descend(root, point, next,
                     heap_push(pending,
                         HeapElement(neg(distance_to_space_const(point,
                                             cnode.min_bounds, cnode.max_bounds)),
                                     candidate)))

\* lines 414-445: the loop of NearestIter::next
RECURSIVE iter_expand(_, _)
\* the loop expanding a subtree only when no candidate is at hand
iter_expand_lazy(root, it) ==
    IF it.pending # <<>> /\ it.evaluated = <<>>
    THEN LET popped == heap_pop(it.pending)
             d == iter_descend(root, it.point, popped.item.element, popped.heap)
         IN  iter_expand(root,
                 [it EXCEPT !.pending = d.pending,
                            !.evaluated = heap_extend(@,
                                leaf_elements(root, d.curr, it.point, -1))])
    ELSE it

iter_expand(root, it) ==
    IF /\ it.pending # <<>>
       /\ (IF it.evaluated = <<>> THEN Infinity
           ELSE neg(unwrap(heap_peek(it.evaluated)).distance))
              >= neg(unwrap(heap_peek(it.pending)).distance)
    THEN LET popped == heap_pop(it.pending)
             d == iter_descend(root, it.point, popped.item.element, popped.heap)
         IN  iter_expand(root,
                 [it EXCEPT !.pending = d.pending,
                            !.evaluated = heap_extend(@,
                                leaf_elements(root, d.curr, it.point, -1))])
    ELSE it

\* NearestIter::next: the iterator afterwards and the Option returned
NearestIter_next(root, it) ==
    LET s == iter_expand(root, it)
    IN  IF s.evaluated = <<>> THEN [it |-> s, item |-> None]
        ELSE LET x == heap_pop(s.evaluated)
             IN  [it |-> [s EXCEPT !.evaluated = x.heap],
                  item |-> Some(<<neg(x.item.distance), x.item.element>>)]

\* lines 479-497: the descent of NearestIterMut::next; [curr, pending]
RECURSIVE iter_mut_descend(_, _, _, _)
iter_mut_descend(root, point, curr, pending) ==
    LET node == node_at(root, curr)
    IN  IF is_leaf(node) THEN [curr |-> curr, pending |-> pending]
        ELSE LET left == belongs_in_left(node, point)
                 candidate == Append(curr, IF left THEN 1 ELSE 0)
                 next == Append(curr, IF left THEN 0 ELSE 1)
                 cnode == node_at(root, candidate)
             IN  iter_mut_descend(root, point, next,
                     heap_push(pending,
                         HeapElement(neg(distance_to_space_const(point,
                                             cnode.min_bounds, cnode.max_bounds)),
                                     candidate)))

\* lines 474-505: the loop of NearestIterMut::next
RECURSIVE iter_mut_expand(_, _)
iter_mut_expand(root, it) ==
    IF /\ it.pending # <<>>
       /\ (IF it.evaluated = <<>> THEN Infinity
           ELSE neg(unwrap(heap_peek(it.evaluated)).distance))
              >= neg(unwrap(heap_peek(it.pending)).distance)
    THEN LET popped == heap_pop(it.pending)
             d == iter_mut_descend(root, it.point, popped.item.element, popped.heap)
         IN  iter_mut_expand(root,
                 [it EXCEPT !.pending = d.pending,
                            !.evaluated = heap_extend(@,
                                leaf_elements(root, d.curr, it.point, -1))])
    ELSE it

\* next returning the nearest candidate and leaving it in evaluated
NearestIterMut_next_peeking(root, it) ==
    LET s == iter_mut_expand(root, it)
    IN  IF s.evaluated = <<>> THEN [it |-> s, item |-> None]
        ELSE LET x == unwrap(heap_peek(s.evaluated))
             IN  [it |-> s, item |-> Some(<<neg(x.distance), x.element>>)]

\* NearestIterMut::next: the iterator afterwards and the Option returned
NearestIterMut_next(root, it) ==
    LET s == iter_mut_expand(root, it)
    IN  IF s.evaluated = <<>> THEN [it |-> s, item |-> None]
        ELSE LET x == heap_pop(s.evaluated)
             IN  [it |-> [s EXCEPT !.evaluated = x.heap],
                  item |-> Some(<<neg(x.item.distance), x.item.element>>)]

(***************************************************************************)
(* The state machine: one tree and the calls made on it.                   *)
(*   tree        the root node                                             *)
(*   pc          "idle": no call is in progress and nothing borrows the    *)
(*               tree; "returned": a call has returned and its result is   *)
(*               held; "iter": an iterator borrows the tree; "hung": a     *)
(*               call is in a loop that never ends                         *)
(*   adds        the number of calls of add that returned Ok               *)
(*   removedSum  the sum of the counts returned by remove                  *)
(*   last        the last call: its arguments and what it returned         *)
(*   iter        the iterator (Some) while pc = "iter"                     *)
(*   yielded     the items the iterator has returned so far                *)
(***************************************************************************)
Call(op, point, arg, res, n, out) ==
    [op |-> op, point |-> point, arg |-> arg, res |-> res, n |-> n, out |-> out]

NoCall == Call("new", <<>>, 0, "Ok", 0, <<>>)

Points == FinitePoints \cup BadPoints

Queries == QueryPoints \cup BadPoints

\* the counts nearest is called with
Nums == 0 .. (MaxAdds + 1)

\* the radii within is called with
Radii == {2 * i - 2 : i \in 0 .. MaxRadius}

Init ==
    /\ tree \in {with_capacity(c) : c \in 0 .. MaxCap}
    /\ pc = "idle"
    /\ adds = 0
    /\ removedSum = 0
    /\ last = NoCall
    /\ iter = None
    /\ yielded = <<>>

Add ==
    /\ pc = "idle"
    /\ adds < MaxAdds
    /\ \E point \in Points, data \in Values :
          LET r == add(tree, point, data)
          IN  /\ tree' = r.tree
              /\ adds' = IF r.res = "Ok" THEN adds + 1 ELSE adds
              /\ last' = Call("add", point, data, r.res, 0, <<>>)
    /\ pc' = "returned"
    /\ UNCHANGED <<removedSum, iter, yielded>>

Remove ==
    /\ pc = "idle"
    /\ \E point \in Points, data \in Values :
          LET r == remove(tree, point, data)
          IN  /\ tree' = r.tree
              /\ pc' = IF r.hung THEN "hung" ELSE "returned"
              /\ removedSum' = IF r.hung THEN removedSum ELSE removedSum + r.removed
              /\ last' = Call("remove", point, data,
                              IF r.hung THEN "Hung" ELSE r.res, r.removed, <<>>)
    /\ UNCHANGED <<adds, iter, yielded>>

Nearest ==
    /\ pc = "idle"
    /\ \E point \in Queries, num \in Nums :
          LET r == nearest(tree, point, num)
          IN  last' = Call("nearest", point, num, r.res, 0, r.out)
    /\ pc' = "returned"
    /\ UNCHANGED <<tree, adds, removedSum, iter, yielded>>

Within ==
    /\ pc = "idle"
    /\ \E point \in Queries, radius \in Radii :
          LET r == within(tree, point, radius)
          IN  last' = Call("within", point, radius, r.res, 0, r.out)
    /\ pc' = "returned"
    /\ UNCHANGED <<tree, adds, removedSum, iter, yielded>>

IterNearest ==
    /\ pc = "idle"
    /\ \E point \in Queries :
          LET r == iter_nearest(tree, point)
          IN  /\ iter' = r.it
              /\ pc' = IF r.res = "Ok" THEN "iter" ELSE "returned"
              /\ last' = Call("iter_nearest", point, 0, r.res, 0, <<>>)
    /\ UNCHANGED <<tree, adds, removedSum, yielded>>

IterNearestMut ==
    /\ pc = "idle"
    /\ \E point \in Queries :
          LET r == iter_nearest_mut(tree, point)
          IN  /\ iter' = r.it
              /\ pc' = IF r.res = "Ok" THEN "iter" ELSE "returned"
              /\ last' = Call("iter_nearest_mut", point, 0, r.res, 0, <<>>)
    /\ UNCHANGED <<tree, adds, removedSum, yielded>>

\* next() on the NearestIter
IterNext ==
    /\ pc = "iter"
    /\ ~unwrap(iter).mutable
    /\ LET r == NearestIter_next(tree, unwrap(iter))
       IN  /\ iter' = Some(r.it)
           /\ yielded' = yielded \o r.item
           /\ last' = Call("next", unwrap(iter).point, 0, "Ok", 0, r.item)
    /\ UNCHANGED <<tree, pc, adds, removedSum>>

\* next() on the NearestIterMut
IterMutNext ==
    /\ pc = "iter"
    /\ unwrap(iter).mutable
    /\ LET r == NearestIterMut_next(tree, unwrap(iter))
       IN  /\ iter' = Some(r.it)
           /\ yielded' = yielded \o r.item
           /\ last' = Call("next_mut", unwrap(iter).point, 0, "Ok", 0, r.item)
    /\ UNCHANGED <<tree, pc, adds, removedSum>>

\* the caller lets go of what the last call returned (a result or an
\* iterator), which ends its borrow of the tree
Release ==
    /\ pc \in {"returned", "iter"}
    /\ pc' = "idle"
    /\ last' = NoCall
    /\ iter' = None
    /\ yielded' = <<>>
    /\ UNCHANGED <<tree, adds, removedSum>>

Next ==
    \/ Add
    \/ Remove
    \/ Nearest
    \/ Within
    \/ IterNearest
    \/ IterNearestMut
    \/ IterNext
    \/ IterMutNext
    \/ Release

Spec == Init /\ [][Next]_vars

(***************************************************************************)
(* What the claims are stated with: the stored entries by a scan of all    *)
(* the leaves, and the distances of a brute-force search.                  *)
(***************************************************************************)
\* the entries stored in the leaves of a subtree, each with where it is stored
RECURSIVE entries_of(_, _)
entries_of(node, path) ==
    IF is_none(node.left) /\ is_none(node.right)
    THEN [i \in 1 .. Len(unwrap(node.points)) |->
             [point |-> unwrap(node.points)[i],
              val |-> unwrap(node.bucket)[i],
              ref |-> value_ref(path, i - 1, unwrap(node.bucket)[i])]]
    ELSE entries_of(unwrap(node.left), Append(path, 0))
             \o entries_of(unwrap(node.right), Append(path, 1))

StoredEntries == entries_of(tree, <<>>)

Range(f) == {f[i] : i \in DOMAIN f}

RECURSIVE insert_sorted(_, _)
insert_sorted(s, x) ==
    IF s = <<>> THEN <<x>>
    ELSE IF x <= s[1] THEN <<x>> \o s
    ELSE <<s[1]>> \o insert_sorted(Tail(s), x)

RECURSIVE sort_seq(_)
sort_seq(s) == IF s = <<>> THEN <<>> ELSE insert_sorted(sort_seq(Tail(s)), s[1])

\* the distances from q to all the stored entries, ascending
BruteForce(q) ==
    sort_seq([i \in 1 .. Len(StoredEntries) |-> distance(q, StoredEntries[i].point)])

Ascending(out) == \A i \in 1 .. Len(out) - 1 : out[i][1] <= out[i + 1][1]

\* every item of out is a stored entry, at its true distance from q, none twice
ItemsAreEntries(out, q) ==
    /\ \A i \in 1 .. Len(out) :
          \E e \in Range(StoredEntries) :
             e.ref = out[i][2] /\ out[i][1] = distance(q, e.point)
    /\ \A i, j \in 1 .. Len(out) : out[i][2] = out[j][2] => i = j

\* the (distance, value) pairs of a list of items
Pairs(out) == [i \in 1 .. Len(out) |-> <<out[i][1], out[i][2].val>>]

SameBag(a, b) ==
    /\ Len(a) = Len(b)
    /\ \A x \in Range(a) \cup Range(b) :
          Cardinality({i \in DOMAIN a : a[i] = x})
              = Cardinality({i \in DOMAIN b : b[i] = x})

Settled == pc \in {"idle", "returned", "iter"}

\* C1: nearest(point, k, d) with a finite point returns min(k, size()) items,
\* ascending by distance, whose distances are the k smallest of a brute-force
\* scan of the stored entries, also after removals have left bounds loose.
C1_NearestIsExact ==
    (pc = "returned" /\ last.op = "nearest" /\ last.point \in QueryPoints) =>
        LET bf == BruteForce(last.point)
        IN  /\ last.res = "Ok"
            /\ Len(last.out) = (IF last.arg < size(tree) THEN last.arg ELSE size(tree))
            /\ Len(last.out) <= Len(bf)
            /\ \A i \in 1 .. Len(last.out) : last.out[i][1] = bf[i]
            /\ Ascending(last.out)
            /\ ItemsAreEntries(last.out, last.point)

C1_Witness ==
    /\ pc = "returned" /\ last.op = "nearest" /\ last.point \in QueryPoints
    /\ ~is_leaf(tree)
    /\ removedSum > 0
    /\ last.arg >= 1 /\ last.arg < size(tree)
    /\ Len(last.out) = last.arg
    /\ last.out[1][1] > 0

\* C2: within(point, r, d) with a finite point returns exactly the stored
\* entries at distance <= r, ascending by distance.
C2_WithinIsExact ==
    (pc = "returned" /\ last.op = "within" /\ last.point \in QueryPoints) =>
        LET inside == {e \in Range(StoredEntries) :
                          distance(last.point, e.point) <= last.arg}
        IN  /\ last.res = "Ok"
            /\ {last.out[i][2] : i \in 1 .. Len(last.out)} = {e.ref : e \in inside}
            /\ Len(last.out) = Cardinality(inside)
            /\ Ascending(last.out)
            /\ ItemsAreEntries(last.out, last.point)

C2_Witness ==
    /\ pc = "returned" /\ last.op = "within" /\ last.point \in QueryPoints
    /\ ~is_leaf(tree)
    /\ removedSum > 0
    /\ Len(last.out) >= 1
    /\ last.arg > 0
    /\ last.out[Len(last.out)][1] = last.arg
    /\ \E e \in Range(StoredEntries) : distance(last.point, e.point) > last.arg

\* the iterator has been consumed until it returned None
IterConsumed ==
    /\ pc = "iter" /\ last.op = "next" /\ last.out = None

\* C3 as stated: iter_nearest consumed until None yields the same (distance,
\* value) items in the same order as nearest(point, size(), d).
C3_IterSameOrderAsNearest ==
    IterConsumed =>
        Pairs(yielded) = Pairs(nearest(tree, last.point, size(tree)).out)

\* C3 as amended: iter_nearest consumed until None yields size() items, the
\* same multiset of (distance, value) items as nearest(point, size(), d) and
\* the same sequence of distances; items of equal distance may be ordered
\* differently.
C3_IterSameBagAsNearest ==
    IterConsumed =>
        LET n == nearest(tree, last.point, size(tree)).out
        IN  /\ Len(yielded) = size(tree)
            /\ SameBag(Pairs(yielded), Pairs(n))
            /\ [i \in 1 .. Len(yielded) |-> yielded[i][1]]
                   = [i \in 1 .. Len(n) |-> n[i][1]]

C3_Witness ==
    /\ IterConsumed
    /\ ~is_leaf(tree)
    /\ Len(yielded) >= 2
    /\ yielded[1][1] < yielded[Len(yielded)][1]
    /\ Pairs(yielded) # Pairs(nearest(tree, last.point, size(tree)).out)

\* the stored entries the iterator has not returned
NotYetReturned ==
    {e \in Range(StoredEntries) : \A i \in 1 .. Len(yielded) : yielded[i][2] # e.ref}

\* C4: every item next() returns is a nearest entry not returned before: it
\* is at least as far as every earlier item and at most as far as every stored
\* entry not yet returned; with both heaps empty next() returns None and
\* leaves them empty.
C4_NextIsBestFirst ==
    (pc = "iter" /\ ~unwrap(iter).mutable) =>
        /\ (last.op = "next" /\ last.out # None) =>
              LET item == unwrap(last.out)
              IN  /\ yielded[Len(yielded)] = item
                  /\ ItemsAreEntries(yielded, last.point)
                  /\ \A i \in 1 .. Len(yielded) : yielded[i][1] <= item[1]
                  /\ \A e \in NotYetReturned : item[1] <= distance(last.point, e.point)
        /\ (unwrap(iter).pending = <<>> /\ unwrap(iter).evaluated = <<>>) =>
              NearestIter_next(tree, unwrap(iter)) = [it |-> unwrap(iter), item |-> None]

C4_Witness ==
    /\ pc = "iter" /\ last.op = "next" /\ last.out # None
    /\ Len(yielded) >= 2
    /\ unwrap(iter).pending # <<>>
    /\ NotYetReturned # {}
    /\ yielded[1][1] < yielded[2][1]

\* the number of entries stored in the leaves of a subtree
RECURSIVE count_entries(_)
count_entries(node) ==
    IF is_none(node.left) /\ is_none(node.right) THEN Len(unwrap(node.points))
    ELSE count_entries(unwrap(node.left)) + count_entries(unwrap(node.right))

RECURSIVE sizes_ok(_)
sizes_ok(node) ==
    /\ node.size = count_entries(node)
    /\ is_some(node.left) => sizes_ok(unwrap(node.left))
    /\ is_some(node.right) => sizes_ok(unwrap(node.right))

\* C5: between calls, the size field of every node is the number of entries
\* stored in the leaves of its subtree, and size() at the root is the number
\* of successful adds minus the sum of the counts remove returned.
C5_SizeIsEntryCount ==
    Settled => /\ sizes_ok(tree)
               /\ size(tree) = adds - removedSum

C5_Witness ==
    /\ pc = "returned" /\ last.op = "remove" /\ last.n > 0
    /\ ~is_leaf(tree)
    /\ adds = MaxAdds
    /\ size(tree) > 0

\* the number of stored entries of t equal to (point, data) on both components
CountEqual(t, point, data) ==
    Cardinality({i \in DOMAIN entries_of(t, <<>>) :
                    /\ entries_of(t, <<>>)[i].point = point
                    /\ entries_of(t, <<>>)[i].val = data})

\* a call of remove with a finite point is made in this step
RemoveCalled == pc = "idle" /\ last'.op = "remove" /\ last'.point \in FinitePoints

\* C6: remove(point, value), when no stored entry equals both the point and
\* the value, returns Ok(0) and leaves the tree as it was.
C6_RemoveAbsentReturnsZero ==
    [][(RemoveCalled /\ CountEqual(tree, last'.point, last'.arg) = 0) =>
          /\ pc' = "returned"
          /\ last'.res = "Ok"
          /\ last'.n = 0
          /\ tree' = tree]_vars

\* C7: remove(point, value) returns Ok(n), n the number of stored entries
\* equal to (point, value); afterwards none is stored and every other entry
\* still is.
C7_RemoveReturnsCount ==
    [][RemoveCalled =>
          /\ pc' = "returned"
          /\ last'.res = "Ok"
          /\ last'.n = CountEqual(tree, last'.point, last'.arg)
          /\ CountEqual(tree', last'.point, last'.arg) = 0
          /\ \A p \in FinitePoints, v \in Values :
                <<p, v>> # <<last'.point, last'.arg>> =>
                    CountEqual(tree', p, v) = CountEqual(tree, p, v)]_vars

\* iter_nearest consumed until None: the items in the order they come
RECURSIVE drain(_, _)
drain(root, it) ==
    LET r == NearestIter_next(root, it)
    IN  IF r.item = None THEN <<>> ELSE r.item \o drain(root, r.it)

\* what the three queries at q return of the tree t, none left out
Returned(t, q) ==
    Range(nearest(t, q, size(t)).out)
        \cup Range(within(t, q, Infinity).out)
        \cup Range(drain(t, unwrap(iter_nearest(t, q).it)))

\* the entry of t an item refers to
EntryOf(t, item) ==
    CHOOSE e \in Range(entries_of(t, <<>>)) : e.ref = item[2]

\* C8 (for a pair stored once): remove of a stored pair takes 1 off size(),
\* no query returns the pair afterwards, and removing it again returns 0 and
\* leaves size() as it is.
C8_RemoveStoredPair ==
    [][(RemoveCalled /\ CountEqual(tree, last'.point, last'.arg) = 1) =>
          /\ pc' = "returned"
          /\ last'.res = "Ok"
          /\ size(tree') = size(tree) - 1
          /\ \A q \in QueryPoints : \A item \in Returned(tree', q) :
                <<EntryOf(tree', item).point, EntryOf(tree', item).val>>
                    # <<last'.point, last'.arg>>
          /\ LET again == remove(tree', last'.point, last'.arg)
             IN  /\ ~again.hung
                 /\ again.res = "Ok"
                 /\ again.removed = 0
                 /\ size(again.tree) = size(tree')]_vars

\* only adds that returned Ok have changed the tree
OnlyAdds == Settled /\ removedSum = 0

AllAtOnePoint == \A e1, e2 \in Range(StoredEntries) : e1.point = e2.point

\* the root is a stem whose two children are leaves holding n entries together
SplitOnce(n) ==
    /\ is_some(tree.left) /\ is_some(tree.right)
    /\ is_leaf(unwrap(tree.left)) /\ is_leaf(unwrap(tree.right))
    /\ size(unwrap(tree.left)) + size(unwrap(tree.right)) = n
    /\ Len(unwrap(unwrap(tree.left).points))
           + Len(unwrap(unwrap(tree.right).points)) = n
    /\ size(tree) = n

\* the root is a leaf that holds n entries
RootLeaf(n) ==
    /\ is_leaf(tree) /\ is_none(tree.left) /\ is_none(tree.right)
    /\ Len(unwrap(tree.points)) = n
    /\ size(tree) = n

BadAddCalled == pc = "idle" /\ last'.op = "add" /\ last'.point \in BadPoints

\* C10 as stated: add with a NaN or infinite coordinate fails with
\* NonFiniteCoordinate on every tree and leaves the tree as it was.
C10_BadAddIsNonFinite ==
    [][BadAddCalled =>
          /\ last'.res = "NonFiniteCoordinate"
          /\ tree' = tree]_vars

\* C10 as amended: add with a NaN or infinite coordinate fails, with
\* NonFiniteCoordinate on a tree of capacity > 0 and with ZeroCapacity on a
\* tree of capacity 0, and leaves size(), the entries and the bounds as they
\* were.
C10_BadAddFails ==
    [][BadAddCalled =>
          /\ last'.res = (IF tree.capacity = 0 THEN "ZeroCapacity"
                          ELSE "NonFiniteCoordinate")
          /\ tree' = tree
          /\ adds' = adds]_vars

C10_Witness ==
    /\ pc = "returned" /\ last.op = "add" /\ last.point \in BadPoints
    /\ last.res = "NonFiniteCoordinate"
    /\ ~is_leaf(tree)
    /\ \E i \in 1 .. D : is_nan(last.point[i])

(***************************************************************************)
(* Capacity 0, and the queries and remove with a point that is not finite. *)
(***************************************************************************)
\* C11: on a tree constructed with capacity 0 every call of add returns
\* ZeroCapacity, and whatever is called the tree stays as constructed:
\* size() = 0, an empty leaf, no children.
C11_ZeroCapacityStaysEmpty ==
    /\ [](tree.capacity = 0 =>
             /\ tree = with_capacity(0)
             /\ size(tree) = 0 /\ is_leaf(tree) /\ unwrap(tree.points) = <<>>
             /\ adds = 0)
    /\ [][(tree.capacity = 0 /\ last'.op = "add") =>
             /\ last'.res = "ZeroCapacity"
             /\ tree' = tree]_vars

C11_Witness ==
    /\ pc = "returned" /\ last.op = "add" /\ last.point \in FinitePoints
    /\ last.res = "ZeroCapacity"
    /\ tree.capacity = 0 /\ size(tree) = 0

\* a call of a query or of remove with a point that has a coordinate that is
\* not finite
BadQueryCalled ==
    /\ pc = "idle"
    /\ last'.op \in {"nearest", "within", "iter_nearest", "iter_nearest_mut", "remove"}
    /\ last'.point \in BadPoints

\* C12: nearest, within, iter_nearest, iter_nearest_mut and remove called
\* with a point that has a NaN or infinite coordinate return
\* NonFiniteCoordinate: nothing is found, no iterator is made, nothing is
\* removed, and the tree (the size of every node included) is as it was.
C12_BadQueryIsNonFinite ==
    [][BadQueryCalled =>
          /\ last'.res = "NonFiniteCoordinate"
          /\ pc' = "returned"
          /\ last'.out = <<>> /\ last'.n = 0
          /\ iter' = None
          /\ tree' = tree
          /\ removedSum' = removedSum]_vars

C12_Witness ==
    /\ pc = "returned" /\ last.op = "remove" /\ last.point \in BadPoints
    /\ last.res = "NonFiniteCoordinate"
    /\ ~is_leaf(tree) /\ size(tree) = MaxAdds
    /\ last.point[D] = -Infinity

(***************************************************************************)
(* The invariants of the nodes.                                            *)
(***************************************************************************)
\* the points stored in the leaves of a subtree
points_under(node) == {e.point : e \in Range(entries_of(node, <<>>))}

\* every stem of a subtree has the entries below its left child strictly
\* below its split and those below its right child at or above it
RECURSIVE StemInvariant(_)
StemInvariant(node) ==
    IF is_none(node.left) /\ is_none(node.right) THEN TRUE
    ELSE LET dim == unwrap(node.split_dimension)
             v == unwrap(node.split_value)
         IN  /\ \A p \in points_under(unwrap(node.left)) : p[dim + 1] < v
             /\ \A p \in points_under(unwrap(node.right)) : p[dim + 1] >= v
             /\ StemInvariant(unwrap(node.left))
             /\ StemInvariant(unwrap(node.right))

\* C13: in every state between calls, for every stem, each entry stored
\* under its left child has its split_dimension coordinate strictly less than
\* split_value and each entry stored under its right child has it >=
\* split_value.
C13_StemInvariant == Settled => StemInvariant(tree)

\* a stem below a stem, entries on both sides of the root, one added after
\* the root was split
C13_Witness ==
    /\ pc = "returned" /\ last.op = "add" /\ last.res = "Ok"
    /\ ~is_leaf(tree)
    /\ \/ ~is_leaf(unwrap(tree.left))
       \/ ~is_leaf(unwrap(tree.right))
    /\ points_under(unwrap(tree.left)) # {}
    /\ points_under(unwrap(tree.right)) # {}

\* the nodes of a subtree
RECURSIVE nodes_of(_)
nodes_of(node) ==
    {node} \cup (IF is_some(node.left) THEN nodes_of(unwrap(node.left)) ELSE {})
           \cup (IF is_some(node.right) THEN nodes_of(unwrap(node.right)) ELSE {})

\* the least and the greatest of a non-empty set of numbers
MinOf(S) == CHOOSE x \in S : \A y \in S : x <= y

MaxOf(S) == CHOOSE x \in S : \A y \in S : x >= y

\* the box of a node is the box of the points ever inserted into it, and
\* the points stored below it were inserted into it and lie inside the box
BoxOfInserted(node) ==
    /\ node.inserted = {} =>
          /\ \A i \in 1 .. D : node.min_bounds[i] = Infinity
          /\ \A i \in 1 .. D : node.max_bounds[i] = -Infinity
    /\ node.inserted # {} =>
          /\ \A i \in 1 .. D : node.min_bounds[i] = MinOf({p[i] : p \in node.inserted})
          /\ \A i \in 1 .. D : node.max_bounds[i] = MaxOf({p[i] : p \in node.inserted})
    /\ points_under(node) \subseteq node.inserted
    /\ \A p \in points_under(node) : \A i \in 1 .. D :
          node.min_bounds[i] <= p[i] /\ p[i] <= node.max_bounds[i]

\* C14: in every state between calls, for every node (leaf or stem),
\* min_bounds and max_bounds are the per-dimension minimum and maximum over
\* every point ever inserted into the node's subtree, so that every point
\* stored in the subtree lies inside the node's box; a node into which
\* nothing was inserted has min = +infinity and max = -infinity.
C14_BoundsAreBoxOfInserted ==
    Settled => \A node \in nodes_of(tree) : BoxOfInserted(node)

\* a stem whose box is wider than the box of what is left in it after a
\* removal, with a child whose box is a point
C14_Witness ==
    /\ pc = "returned" /\ last.op = "remove" /\ last.n > 0
    /\ ~is_leaf(tree)
    /\ points_under(tree) # {}
    /\ \E i \in 1 .. D :
          tree.min_bounds[i] < MinOf({p[i] : p \in points_under(tree)})
    /\ \E node \in nodes_of(tree) :
          node.inserted # {} /\ node.min_bounds = node.max_bounds

(***************************************************************************)
(* What remove and later calls leave as it was.                            *)
(***************************************************************************)
\* a subtree without its bucket contents and its sizes: the boxes, the
\* splits, the capacities and the children that are present
RECURSIVE Frame(_)
Frame(node) ==
    [min_bounds |-> node.min_bounds, max_bounds |-> node.max_bounds,
     split_dimension |-> node.split_dimension, split_value |-> node.split_value,
     capacity |-> node.capacity,
     left |-> IF is_some(node.left) THEN Some(Frame(unwrap(node.left))) ELSE None,
     right |-> IF is_some(node.right) THEN Some(Frame(unwrap(node.right))) ELSE None]

\* C15: remove changes only bucket contents and size fields: at every node
\* min_bounds, max_bounds, split_dimension, split_value, capacity and the
\* presence of the left and right children are after the call what they
\* were before it.
C15_RemoveKeepsFrame ==
    [][(pc = "idle" /\ last'.op = "remove") => Frame(tree') = Frame(tree)]_vars

\* a removal that emptied one child of a stem
C15_Witness ==
    /\ pc = "returned" /\ last.op = "remove" /\ last.res = "Ok" /\ last.n > 0
    /\ ~is_leaf(tree)
    /\ \/ size(unwrap(tree.left)) = 0
       \/ size(unwrap(tree.right)) = 0
    /\ \A i \in 1 .. D : is_finite(tree.min_bounds[i])

\* every stem of old is in new the stem it was, with the same split and the
\* same children, each child carrying on its own history
RECURSIVE StemsStay(_, _)
StemsStay(old, new) ==
    /\ old.inserted \subseteq new.inserted
    /\ new.capacity = old.capacity
    /\ (is_some(old.left) \/ is_some(old.right)) =>
          /\ is_some(old.left) /\ is_some(old.right)
          /\ is_some(new.left) /\ is_some(new.right)
          /\ ~is_leaf(new)
          /\ is_some(new.split_dimension)
          /\ new.split_dimension = old.split_dimension
          /\ new.split_value = old.split_value
          /\ StemsStay(unwrap(old.left), unwrap(new.left))
          /\ StemsStay(unwrap(old.right), unwrap(new.right))

\* C16: whatever is called, a node that is a stem stays a stem with the
\* same split_dimension, the same split_value and the same two child nodes,
\* also when removals bring its size to 0; so a node changes from leaf to
\* stem at most once.
C16_StemsStayStems == [][StemsStay(tree, tree')]_vars

\* a stem all of whose entries have been removed
C16_Witness ==
    /\ pc = "returned" /\ last.op = "remove" /\ last.n > 0
    /\ ~is_leaf(tree)
    /\ size(tree) = 0
    /\ is_some(tree.left) /\ is_some(tree.right)

(***************************************************************************)
(* The split of a leaf that overflows.                                     *)
(***************************************************************************)
\* the paths of the nodes of a subtree
RECURSIVE paths_of(_, _)
paths_of(node, path) ==
    {path} \cup (IF is_some(node.left)
                 THEN paths_of(unwrap(node.left), Append(path, 0)) ELSE {})
           \cup (IF is_some(node.right)
                 THEN paths_of(unwrap(node.right), Append(path, 1)) ELSE {})

has_children(node) == is_some(node.left) /\ is_some(node.right)

\* the extent of the box of a node in dimension i (1-based)
extent(node, i) == node.max_bounds[i] - node.min_bounds[i]

\* the split of a stem is on the lowest of the dimensions its box is widest
\* in, at the middle of the box
SplitRule(node) ==
    LET i == unwrap(node.split_dimension) + 1
    IN  /\ i \in 1 .. D
        /\ extent(node, i) > 0
        /\ \A j \in 1 .. D : extent(node, j) <= extent(node, i)
        /\ \A j \in 1 .. (i - 1) : extent(node, j) < extent(node, i)
        /\ 2 * unwrap(node.split_value) = node.min_bounds[i] + node.max_bounds[i]

\* the nodes that are stems after the step and were not before it
NewStems ==
    {p \in paths_of(tree', <<>>) :
        /\ has_children(node_at(tree', p))
        /\ ~(p \in paths_of(tree, <<>>) /\ has_children(node_at(tree, p)))}

\* the leaves that hold more than their capacity after the step and were
\* given an entry in it: by add, or as a child made by a split
NewOverfull ==
    {p \in paths_of(tree', <<>>) :
        LET new == node_at(tree', p)
        IN  /\ is_leaf(new)
            /\ Len(unwrap(new.points)) > new.capacity
            /\ ~(p \in paths_of(tree, <<>>) /\ node_at(tree, p) = new)}

\* C17: when a leaf overflows and is split, split_dimension is the
\* lowest-index dimension whose extent max_bounds - min_bounds is the
\* greatest of all dimensions and split_value is the midpoint of the box on
\* that dimension; when no dimension has positive extent the node stays a
\* leaf holding all its entries, the one just added included.
C17_SplitsWidestAtMidpoint ==
    [][/\ \A p \in NewStems :
             LET new == node_at(tree', p)
             IN  /\ last'.op = "add"
                 /\ SplitRule(new)
                 /\ size(new) > new.capacity
       /\ (pc = "idle" /\ last'.op = "add" /\ last'.res = "Ok") =>
             \A p \in NewOverfull :
                 LET new == node_at(tree', p)
                 IN  /\ \A i \in 1 .. D : extent(new, i) = 0
                     /\ Len(unwrap(new.points)) = size(new)
                     /\ Len(unwrap(new.bucket)) = size(new)
                     /\ (p \in paths_of(tree, <<>>) =>
                            /\ is_leaf(node_at(tree, p))
                            /\ unwrap(new.points)
                                  = Append(unwrap(node_at(tree, p).points), last'.point)
                            /\ unwrap(new.bucket)
                                  = Append(unwrap(node_at(tree, p).bucket), last'.arg))]_vars

\* the root split by the last add, its box as wide in one dimension as in
\* the other
C17_Witness ==
    /\ pc = "returned" /\ last.op = "add" /\ last.res = "Ok"
    /\ removedSum = 0 /\ adds = tree.capacity + 1
    /\ has_children(tree)
    /\ extent(tree, 1) = extent(tree, 2)
    /\ tree.split_dimension = Some(0)
    /\ is_leaf(unwrap(tree.left)) /\ is_leaf(unwrap(tree.right))

\* the leaves of a tree of capacity > 0 that hold more than their capacity
Overfull ==
    {node \in nodes_of(tree) :
        is_leaf(node) /\ Len(unwrap(node.points)) > node.capacity}

\* C18: in every state between calls of a tree with capacity C > 0, a leaf
\* that holds more than C entries has a box of zero extent in every
\* dimension: the points ever inserted into it, and so the entries it holds,
\* are one and the same point.  (Every other leaf holds at most C entries.)
C18_OverfullLeafIsOnePoint ==
    (Settled /\ tree.capacity > 0) =>
        \A node \in Overfull :
            /\ \A i \in 1 .. D : extent(node, i) = 0
            /\ Cardinality(node.inserted) = 1
            /\ points_under(node) = node.inserted
            /\ \A i \in 1 .. Len(unwrap(node.points)) :
                  unwrap(node.points)[i] = node.min_bounds

\* a leaf below a stem holding more than its capacity, and a leaf beside it
\* that does not
C18_Witness ==
    /\ Settled /\ tree.capacity > 0
    /\ has_children(tree)
    /\ \E node \in Overfull : node # tree
    /\ \E node \in nodes_of(tree) \ Overfull :
          is_leaf(node) /\ Len(unwrap(node.points)) > 0

(***************************************************************************)
(* NearestIterMut beside NearestIter.                                      *)
(***************************************************************************)
\* C19: for every tree between calls and every finite query point, what
\* iter_nearest_mut has yielded so far is the beginning, of the same length,
\* of the sequence of (distance, value) items iter_nearest yields on the same
\* tree, all of it once next() has returned None; and no stored value is
\* yielded twice.
C19_IterMutSameAsIter ==
    (pc = "iter" /\ unwrap(iter).mutable) =>
        LET all == drain(tree, unwrap(iter_nearest(tree, unwrap(iter).point).it))
        IN  /\ Len(yielded) <= Len(all)
            /\ Pairs(yielded) = Pairs(take(all, Len(yielded)))
            /\ (last.op = "next_mut" /\ last.out = None) => Len(yielded) = Len(all)
            /\ (last.op = "next_mut" /\ last.out # None) =>
                  yielded[Len(yielded)] = unwrap(last.out)
            /\ \A i, j \in 1 .. Len(yielded) :
                  yielded[i][2] = yielded[j][2] => i = j

\* iter_nearest_mut consumed until None on a stem that holds entries at
\* different distances and two at the same
C19_Witness ==
    /\ pc = "iter" /\ unwrap(iter).mutable
    /\ last.op = "next_mut" /\ last.out = None
    /\ ~is_leaf(tree)
    /\ Len(yielded) = MaxAdds
    /\ yielded[1][1] < yielded[2][1]
    /\ yielded[2][1] = yielded[3][1]
====
